---- MODULE Spec2Model ----
(***************************************************************************)
(* PlaytomicTracker: a poll / filter / diff / notify loop.                 *)
(*                                                                         *)
(* The repository holds two variants of the same monitor class:            *)
(*   "WA"    src/playtomicmonitor_WA.py  (WhatsApp channel, filters)       *)
(*   "EMAIL" src/playtomicmontior.py     (e-mail channel)                  *)
(* Both are modelled; the variable `variant` says which file is running.   *)
(*                                                                         *)
(* Python strings are sequences of one-character strings, so that          *)
(* split, slicing, int() and f-string concatenation are computed.          *)
(* A JSON scalar is a record [t, v]: t = "none" for an absent key (what    *)
(* dict.get returns without a default), t = "str" with the characters v.   *)
(***************************************************************************)
EXTENDS Integers, Sequences, FiniteSets, TLC

(* ------------------------------ bounds --------------------------------- *)

\* number of entries of config['tenant_ids']
NumTenants == 2

\* length of the forward-looking date window (range(5) in the WA variant)
NumDates == 2

(* ------------------------- program constants --------------------------- *)

min_hour == 17

check_interval == 300

recovery_delay == 60

MaxListed == 10

(* ------------------------------ strings -------------------------------- *)

None == [t |-> "none", v |-> <<>>]

Str(chars) == [t |-> "str", v |-> chars]

\* the characters the model uses, in code-point order (Python compares
\* strings by code point)
Alphabet == <<" ", "(", ")", "-", "0", "1", "2", "3", "4", "5", "6", "7", "8", "9",
              ":", "@", "N", "R", "T", "U", "X", "_", "b", "e", "k", "n", "o", "w", "x">>

Digits == <<"0", "1", "2", "3", "4", "5", "6", "7", "8", "9">>

Ord(c) == CHOOSE i \in 1..Len(Alphabet) : Alphabet[i] = c

IsDigit(c) == \E i \in 1..10 : Digits[i] = c

DigitValue(c) == (CHOOSE i \in 1..10 : Digits[i] = c) - 1

\* a < b for Python str
RECURSIVE StrLess(_, _)
StrLess(a, b) ==
    IF b = <<>> THEN FALSE
    ELSE IF a = <<>> THEN TRUE
    ELSE IF Head(a) = Head(b) THEN StrLess(Tail(a), Tail(b))
    ELSE Ord(Head(a)) < Ord(Head(b))

\* s[:n]
Prefix(s, n) == SubSeq(s, 1, IF Len(s) < n THEN Len(s) ELSE n)

\* s.split(':')[0]
RECURSIVE SplitColonFirst(_)
SplitColonFirst(s) ==
    IF s = <<>> \/ Head(s) = ":" THEN <<>>
    ELSE <<Head(s)>> \o SplitColonFirst(Tail(s))

\* whether int(s) returns (decimal digits only; the inputs of the model hold
\* no sign, blank or underscore) or raises ValueError
IntParses(s) == s # <<>> /\ \A i \in 1..Len(s) : IsDigit(s[i])

RECURSIVE IntOf(_)
IntOf(s) ==
    IF s = <<>> THEN 0
    ELSE 10 * IntOf(SubSeq(s, 1, Len(s) - 1)) + DigitValue(s[Len(s)])

\* str(x) as an f-string field renders it
Text(val) == IF val.t = "none" THEN <<"N", "o", "n", "e">> ELSE val.v

\* val is falsy for `a or b`
Falsy(val) == val.t = "none" \/ val.v = <<>>

(* ------------------------------ config --------------------------------- *)

tenant_ids == [i \in 1..NumTenants |-> <<"T", Digits[i + 1]>>]

ignored_courts == {<<"R", "X">>}

\* strftime('%Y-%m-%d') of today + i days; today is 2026-01-01
strftime(i) == <<"2", "0", "2", "6", "-", "0", "1", "-", "0", Digits[i + 2]>>

dates_to_check == [i \in 1..NumDates |-> strftime(i - 1)]

(* --------------------------- upstream data ----------------------------- *)

Slot(st, price) == [start_time |-> st, price |-> price]

\* one element of the JSON list of a 200 response
Obj(rid, slots, avail, st, price) ==
    [isobj |-> TRUE, resource_id |-> rid, slots |-> slots,
     available |-> avail, start_time |-> st, price |-> price]

\* an element that is no JSON object (a string, a number): .get raises
NotAnObject ==
    [isobj |-> FALSE, resource_id |-> None, slots |-> <<>>,
     available |-> FALSE, start_time |-> None, price |-> None]

T1630 == <<"1", "6", ":", "3", "0", ":", "0", "0">>

T1800 == <<"1", "8", ":", "0", "0", ":", "0", "0">>

T1900 == <<"1", "9", ":", "0", "0", ":", "0", "0">>

R1 == <<"R", "1">>

RX == <<"R", "X">>

\* resource R1 with a 16:30 and an 18:00 slot
BodyA ==
    <<Obj(Str(R1), <<Slot(Str(T1630), Str(<<"1", "0">>)), Slot(Str(T1800), Str(<<"1", "2">>))>>,
          TRUE, Str(T1800), Str(<<"1", "2">>))>>

\* the same 18:00 slot at another price, and an ignored outdoor court
BodyB ==
    <<Obj(Str(R1), <<Slot(Str(T1800), Str(<<"1", "5">>))>>, TRUE, Str(T1800), Str(<<"1", "5">>)),
      Obj(Str(RX), <<Slot(Str(T1900), Str(<<"9">>))>>, FALSE, Str(T1900), Str(<<"9">>))>>

\* a slot without start_time, a slot whose start time has no parseable
\* leading hour, then an element that is no object
BodyBad ==
    <<Obj(Str(R1), <<Slot(None, Str(<<"1", "0">>)),
                     Slot(Str(<<"x", "x", ":", "0", "0">>), None)>>,
          FALSE, None, Str(<<"1", "0">>)),
      NotAnObject>>

\* the JSON bodies a 200 response carries (lists; <<>> is the empty list)
Bodies == {<<>>, BodyA, BodyB, BodyBad}

\* what requests.get and response.json() can do for one request
NetworkError == [raised |-> TRUE, status_code |-> 0, json_ok |-> FALSE, data |-> <<>>]

Status500 == [raised |-> FALSE, status_code |-> 500, json_ok |-> FALSE, data |-> <<>>]

MalformedBody == [raised |-> FALSE, status_code |-> 200, json_ok |-> FALSE, data |-> <<>>]

Ok200(body) == [raised |-> FALSE, status_code |-> 200, json_ok |-> TRUE, data |-> body]

Responses == {NetworkError, Status500, MalformedBody} \cup {Ok200(b) : b \in Bodies}

(* ------------------- WA variant: filter and identity ------------------- *)

\* resource.get('resource_id', 'Unknown')
WA_court_id(resource) ==
    IF resource.resource_id.t = "none" THEN <<"U", "n", "k", "n", "o", "w", "n">>
    ELSE resource.resource_id.v

\* int(start_time.split(':')[0]) raises: AttributeError on None, ValueError
\* on a leading field that is no number
WA_SlotRaises(slot) ==
    slot.start_time.t = "none" \/ ~IntParses(SplitColonFirst(slot.start_time.v))

WA_hour(slot) == IntOf(SplitColonFirst(slot.start_time.v))

\* variant of WA_TooEarly that also drops the slots of the threshold hour
WA_TooEarly_Strict(slot) == WA_hour(slot) <= min_hour

\* `if hour < self.config['min_hour']: continue`
WA_TooEarly(slot) == WA_hour(slot) < min_hour

\* f"{date_str}_{court_id}_{start_time}"
WA_slot_id(date_str, court_id, start_time) ==
    date_str \o <<"_">> \o court_id \o <<"_">> \o start_time

\* the slots of one resource that pass the time check, in order, each with
\* its identity and its found_slots entry
RECURSIVE WA_SlotEntries(_, _, _)
WA_SlotEntries(date_str, court_id, slots) ==
    IF slots = <<>> THEN <<>>
    ELSE LET slot == Head(slots)
             rest == WA_SlotEntries(date_str, court_id, Tail(slots))
         IN  IF WA_TooEarly(slot) THEN rest
             ELSE <<[slot_id |-> WA_slot_id(date_str, court_id, slot.start_time.v),
                     found |-> [date |-> date_str,
                                time |-> Prefix(slot.start_time.v, 5),
                                price |-> slot.price]]>> \o rest

WA_ResourceEntries(date_str, resource) ==
    IF WA_court_id(resource) \in ignored_courts THEN <<>>
    ELSE WA_SlotEntries(date_str, WA_court_id(resource), resource.slots)

RECURSIVE WA_DayEntries(_, _)
WA_DayEntries(date_str, data) ==
    IF data = <<>> THEN <<>>
    ELSE WA_ResourceEntries(date_str, Head(data)) \o WA_DayEntries(date_str, Tail(data))

RECURSIVE WA_Entries(_)
WA_Entries(availability) ==
    IF availability = <<>> THEN <<>>
    ELSE WA_DayEntries(Head(availability).date, Head(availability).data)
         \o WA_Entries(Tail(availability))

\* the filter loop raises somewhere
WA_Raises(availability) ==
    \E i \in 1..Len(availability) :
        \E j \in 1..Len(availability[i].data) :
            LET resource == availability[i].data[j]
            IN  \/ ~resource.isobj
                \/ /\ WA_court_id(resource) \notin ignored_courts
                   /\ \E k \in 1..Len(resource.slots) : WA_SlotRaises(resource.slots[k])

(* ------------------------ WA variant: message -------------------------- *)

\* variant of KeyLess that compares the times only
KeyLess_TimeOnly(a, b) == StrLess(a.time, b.time)

\* the sort key (x['date'], x['time']) of a before that of b
KeyLess(a, b) ==
    StrLess(a.date, b.date) \/ (a.date = b.date /\ StrLess(a.time, b.time))

RECURSIVE Insert(_, _)
Insert(sorted, x) ==
    IF sorted = <<>> THEN <<x>>
    ELSE IF KeyLess(x, Head(sorted)) THEN <<x>> \o sorted
    ELSE <<Head(sorted)>> \o Insert(Tail(sorted), x)

\* list.sort(key=...): stable
RECURSIVE SortSlots(_)
SortSlots(slots) ==
    IF slots = <<>> THEN <<>>
    ELSE Insert(SortSlots(SubSeq(slots, 1, Len(slots) - 1)), slots[Len(slots)])

\* f"{s['date']} @ {s['time']} ({s['price']})" (the leading emoji is left out)
WA_Line(s) ==
    s.date \o <<" ", "@", " ">> \o s.time \o <<" ", "(">> \o Text(s.price) \o <<")">>

WA_Message(slots) ==
    LET sorted == SortSlots(slots)
        shown == Prefix(sorted, MaxListed)
    IN  [total |-> Len(slots), lines |-> [i \in 1..Len(shown) |-> WA_Line(shown[i])]]

(* ---------------- EMAIL variant: parse, identity, message -------------- *)

\* a or b, where key b is absent from the object
OrAbsent(a) == IF Falsy(a) THEN None ELSE a

UnknownClub == <<"U", "n", "k", "n", "o", "w", "n", " ", "C", "l", "u", "b">>

Email_Court(tenant_id, slot) ==
    [tenant_id |-> tenant_id,
     court_id |-> OrAbsent(slot.resource_id),
     time |-> OrAbsent(slot.start_time),
     price |-> slot.price,
     venue_name |-> UnknownClub]

RECURSIVE Email_ClubCourts(_, _)
Email_ClubCourts(tenant_id, availability) ==
    IF availability = <<>> THEN <<>>
    ELSE (IF Head(availability).available
          THEN <<Email_Court(tenant_id, Head(availability))>> ELSE <<>>)
         \o Email_ClubCourts(tenant_id, Tail(availability))

RECURSIVE Email_available_courts(_)
Email_available_courts(data) ==
    IF data = <<>> THEN <<>>
    ELSE Email_ClubCourts(Head(data).tenant_id, Head(data).data)
         \o Email_available_courts(Tail(data))

\* slot.get on an element that is no object raises AttributeError
Email_Raises(data) ==
    \E i \in 1..Len(data) : \E j \in 1..Len(data[i].data) : ~data[i].data[j].isobj

\* f"{court['tenant_id']}_{court['court_id']}_{court['time']}"
Email_court_id(court) ==
    court.tenant_id \o <<"_">> \o Text(court.court_id) \o <<"_">> \o Text(court.time)

Email_Line(court) ==
    court.venue_name \o <<" ", "-", " ">> \o Text(court.time)
    \o <<" ", "-", " ">> \o Text(court.price)

format_notification(available_courts) ==
    [total |-> Len(available_courts),
     lines |-> [i \in 1..Len(available_courts) |-> Email_Line(available_courts[i])]]

\* what check_and_notify computes from the fetched data, when it does not
\* raise: the identity set, the slot list and the message it would send
Computed(v, data) ==
    IF v = "WA"
    THEN LET entries == WA_Entries(data)
             found == [i \in 1..Len(entries) |-> entries[i].found]
         IN  [ids |-> {entries[i].slot_id : i \in 1..Len(entries)}, slots |-> found]
    ELSE LET courts == Email_available_courts(data)
         IN  [ids |-> {Email_court_id(courts[i]) : i \in 1..Len(courts)}, slots |-> courts]

(* ------------------------------- state --------------------------------- *)

VARIABLES
    variant,            \* which file runs: "WA" or "EMAIL"
    pc,                 \* where run() is
    known_available,    \* self.known_available
    idx,                \* number of the next (tenant, date) request of this fetch
    all_results,        \* get_available_courts: all_results / all_available
    response,           \* the response of the request made last in this fetch
    requests,           \* history: the requests of this fetch, in order
    non200_only,        \* history: every request of this fetch got a non-200 status
    availability_data,  \* what get_available_courts returned
    current_cycle_ids,  \* current_cycle_ids / current_available
    found_slots,        \* found_slots / available_courts
    new_openings,       \* new_openings / new_courts
    message,            \* the notification built in this cycle
    sent,               \* notifications sent in this cycle
    delivered,          \* whether the send of this cycle succeeded
    delay,              \* seconds of the time.sleep in progress
    startup_sent,       \* startup notifications sent
    last,               \* history: the cycle that ended last
    last2,              \* history: the identity set of the cycle that ended before it
    updated_ids,        \* history: the identity set of the last cycle that reached the update
    stop,               \* history: where KeyboardInterrupt arrived
    probe               \* two slot observations and their identity keys (KeySpec only)

vars == <<variant, pc, known_available, idx, all_results, response, requests, non200_only,
          availability_data, current_cycle_ids, found_slots, new_openings,
          message, sent, delivered, delay, startup_sent, last, last2,
          updated_ids, stop, probe>>

NoMessage == [total |-> 0, lines |-> <<>>]

NoReturn == [is_none |-> TRUE, rows |-> <<>>]

NoResponse == [raised |-> FALSE, status_code |-> 0, json_ok |-> FALSE, data |-> <<>>]

NoObservation == [tenant_id |-> <<>>, date |-> <<>>, resource_id |-> None,
                  start_time |-> None, price |-> None]

NoProbe == [phase |-> "off", a |-> NoObservation, b |-> NoObservation,
            key_a |-> <<>>, key_b |-> <<>>]

NoCycle == [outcome |-> "none", ids |-> {}, prices |-> {}, sent |-> 0, delivered |-> FALSE]

PricesOf(slots) == {slots[i].price : i \in 1..Len(slots)}

\* the (tenant, date) requests of one fetch, in the order of the loops
NumPairs == IF variant = "WA" THEN NumTenants * NumDates ELSE NumTenants

PairTenant(k) ==
    IF variant = "WA" THEN tenant_ids[((k - 1) \div NumDates) + 1] ELSE tenant_ids[k]

PairDate(k) ==
    IF variant = "WA" THEN dates_to_check[((k - 1) % NumDates) + 1] ELSE strftime(0)

\* the locals and the histories before the first cycle
Fresh ==
    /\ idx = 0
    /\ all_results = <<>>
    /\ response = NoResponse
    /\ requests = <<>>
    /\ non200_only = FALSE
    /\ availability_data = NoReturn
    /\ current_cycle_ids = {}
    /\ found_slots = <<>>
    /\ new_openings = {}
    /\ message = NoMessage
    /\ sent = 0
    /\ delivered = FALSE
    /\ delay = 0
    /\ startup_sent = 0
    /\ last = NoCycle
    /\ last2 = {}
    /\ stop = "none"

Init ==
    /\ variant \in {"WA", "EMAIL"}
    /\ pc = "startup"
    /\ known_available = {}
    /\ updated_ids = {}
    /\ probe = NoProbe
    /\ Fresh

\* the locals of check_and_notify and get_available_courts go out of scope
LocalsGone ==
    /\ idx' = 0
    /\ all_results' = <<>>
    /\ response' = NoResponse
    /\ requests' = <<>>
    /\ non200_only' = FALSE
    /\ availability_data' = NoReturn
    /\ current_cycle_ids' = {}
    /\ found_slots' = <<>>
    /\ new_openings' = {}
    /\ message' = NoMessage
    /\ sent' = 0
    /\ delivered' = FALSE

LocalsKept ==
    UNCHANGED <<idx, all_results, response, requests, non200_only, availability_data,
                current_cycle_ids,
                found_slots, new_openings, message, sent, delivered>>

CycleEnds(outcome) ==
    /\ last' = [outcome |-> outcome, ids |-> current_cycle_ids,
                prices |-> PricesOf(found_slots), sent |-> sent, delivered |-> delivered]
    /\ last2' = last.ids
    /\ updated_ids' = IF outcome = "updated" THEN current_cycle_ids ELSE updated_ids

(* ------------------------------ actions -------------------------------- *)

\* run(), up to the loop: the WA variant sends its startup message through
\* send_whatsapp, which swallows a delivery failure; the EMAIL variant only prints
Startup ==
    /\ pc = "startup"
    /\ pc' = "cycle"
    /\ startup_sent' = IF variant = "WA" THEN startup_sent + 1 ELSE startup_sent
    /\ LocalsKept
    /\ UNCHANGED <<probe, variant, known_available, delay, last, last2, updated_ids, stop>>

\* check_and_notify is called and get_available_courts starts
CycleStart ==
    /\ pc = "cycle"
    /\ pc' = "fetch"
    /\ idx' = 1
    /\ all_results' = <<>>
    /\ response' = NoResponse
    /\ requests' = <<>>
    /\ non200_only' = TRUE
    /\ delay' = 0
    /\ UNCHANGED <<probe, variant, known_available, availability_data, current_cycle_ids,
                   found_slots, new_openings, message, sent, delivered,
                   startup_sent, last, last2, updated_ids, stop>>

\* one pass of the WA request loop: the inner try catches what the request
\* or response.json() raises
WA_Request(r) ==
    /\ variant = "WA"
    /\ all_results' =
         IF ~r.raised /\ r.status_code = 200 /\ r.json_ok /\ Len(r.data) > 0
         THEN Append(all_results, [date |-> PairDate(idx), data |-> r.data])
         ELSE all_results
    /\ idx' = idx + 1
    /\ pc' = "fetch"
    /\ availability_data' = availability_data

\* one pass of the EMAIL request loop: there is no inner try, so what the
\* request or response.json() raises reaches the function's except and
\* get_available_courts returns None
Email_Request(r) ==
    /\ variant = "EMAIL"
    /\ IF r.raised \/ (r.status_code = 200 /\ ~r.json_ok)
       THEN /\ pc' = "fetched"
            /\ availability_data' = [is_none |-> TRUE, rows |-> <<>>]
            /\ UNCHANGED <<all_results, idx>>
       ELSE /\ pc' = "fetch"
            /\ all_results' =
                 IF r.status_code = 200 /\ r.data # <<>>
                 THEN Append(all_results, [tenant_id |-> PairTenant(idx), data |-> r.data])
                 ELSE all_results
            /\ idx' = idx + 1
            /\ availability_data' = availability_data

Request ==
    /\ pc = "fetch"
    /\ idx <= NumPairs
    /\ \E r \in Responses :
         /\ response' = r
         /\ (WA_Request(r) \/ Email_Request(r))
    /\ requests' = Append(requests, [tenant_id |-> PairTenant(idx), date |-> PairDate(idx),
                                     answered |-> /\ ~response'.raised
                                                  /\ response'.status_code = 200
                                                  /\ response'.json_ok
                                                  /\ response'.data # <<>>])
    /\ non200_only' = (non200_only /\ ~response'.raised /\ response'.status_code # 200)
    /\ UNCHANGED <<probe, variant, known_available, current_cycle_ids, found_slots,
                   new_openings, message, sent, delivered, delay, startup_sent,
                   last, last2, updated_ids, stop>>

\* return all_results
FetchReturn ==
    /\ pc = "fetch"
    /\ idx > NumPairs
    /\ pc' = "fetched"
    /\ availability_data' = [is_none |-> FALSE, rows |-> all_results]
    /\ response' = NoResponse
    /\ UNCHANGED <<probe, variant, known_available, idx, all_results, requests, non200_only,
                   current_cycle_ids, found_slots, new_openings, message, sent,
                   delivered, delay, startup_sent, last, last2, updated_ids, stop>>

\* WA: `if not availability_data: return`; EMAIL: `if data is None: return`
ReturnsEarly ==
    IF variant = "WA"
    THEN availability_data.is_none \/ availability_data.rows = <<>>
    ELSE availability_data.is_none

Raises ==
    IF variant = "WA" THEN WA_Raises(availability_data.rows)
    ELSE Email_Raises(availability_data.rows)

\* check_and_notify returns without data; run() goes to sleep for the interval
NoData ==
    /\ pc = "fetched"
    /\ ReturnsEarly
    /\ pc' = "sleep"
    /\ delay' = check_interval
    /\ CycleEnds("nodata")
    /\ LocalsGone
    /\ UNCHANGED <<probe, variant, known_available, startup_sent, stop>>

\* variant of CycleError that sleeps the check interval
CycleError_NormalSleep ==
    /\ pc = "fetched"
    /\ ~ReturnsEarly
    /\ Raises
    /\ pc' = "sleep"
    /\ delay' = check_interval
    /\ CycleEnds("error")
    /\ LocalsGone
    /\ UNCHANGED <<probe, variant, known_available, startup_sent, stop>>

\* the filter loop raises; run() catches Exception and sleeps 60 seconds
CycleError ==
    /\ pc = "fetched"
    /\ ~ReturnsEarly
    /\ Raises
    /\ pc' = "recover"
    /\ delay' = recovery_delay
    /\ CycleEnds("error")
    /\ LocalsGone
    /\ UNCHANGED <<probe, variant, known_available, startup_sent, stop>>

\* variant of Difference that forgets the subtraction
Difference_NoSubtract(current, known) == current

\* new_openings = current_cycle_ids - self.known_available
Difference(current, known) == current \ known

\* the slots the message is built from: WA all found slots, EMAIL the new ones
Email_new_court_details(courts, new) ==
    SelectSeq(courts, LAMBDA c : Email_court_id(c) \in new)

\* variant of ShouldNotify that notifies whenever the cycle found anything
ShouldNotify_AnyFound(v, slots, new) == slots # <<>>

\* WA: `if found_slots:` and `if new_openings:`; EMAIL: `if new_courts:`
ShouldNotify(v, slots, new) ==
    IF v = "WA" THEN slots # <<>> /\ new # {} ELSE new # {}

\* the filter loop, the difference and the decision to notify
Diff ==
    /\ pc = "fetched"
    /\ ~ReturnsEarly
    /\ ~Raises
    /\ LET c == Computed(variant, availability_data.rows)
           new == Difference(c.ids, known_available)
           notify == ShouldNotify(variant, c.slots, new)
       IN  /\ current_cycle_ids' = c.ids
           /\ found_slots' = c.slots
           /\ new_openings' = new
           /\ message' = IF ~notify THEN NoMessage
                         ELSE IF variant = "WA" THEN WA_Message(c.slots)
                         ELSE format_notification(Email_new_court_details(c.slots, new))
           /\ pc' = IF notify THEN "notify" ELSE "update"
    /\ UNCHANGED <<probe, variant, known_available, idx, all_results, response, requests,
                   non200_only,
                   availability_data, sent, delivered, delay, startup_sent,
                   last, last2, updated_ids, stop>>

\* variant of Send whose delivery failure escapes to run()
Send_Propagates ==
    /\ pc = "notify"
    /\ \E ok \in BOOLEAN :
         /\ delivered' = ok
         /\ pc' = IF ok THEN "update" ELSE "recover"
         /\ last' = IF ok THEN last
                    ELSE [outcome |-> "error", ids |-> current_cycle_ids,
                          prices |-> PricesOf(found_slots), sent |-> sent + 1,
                          delivered |-> FALSE]
    /\ sent' = sent + 1
    /\ UNCHANGED <<probe, variant, known_available, idx, all_results, response, requests,
                   non200_only, availability_data, current_cycle_ids, found_slots,
                   new_openings, message, delay, startup_sent, last2, updated_ids, stop>>

\* send_whatsapp / send_email: returns True, or catches the failure and
\* returns False; the caller ignores the result
Send ==
    /\ pc = "notify"
    /\ \E ok \in BOOLEAN : delivered' = ok
    /\ sent' = sent + 1
    /\ pc' = "update"
    /\ UNCHANGED <<probe, variant, known_available, idx, all_results, response, requests,
                   non200_only,
                   availability_data, current_cycle_ids, found_slots, new_openings,
                   message, delay, startup_sent, last, last2, updated_ids, stop>>

\* variant of NextKnown that merges instead of replacing
NextKnown_Merge(known, current) == known \cup current

\* variant of NextKnown that never stores the cycle's identities
NextKnown_Keep(known, current) == known

\* self.known_available = current_cycle_ids
NextKnown(known, current) == current

\* the last statement of check_and_notify; run() goes to sleep for the interval
Update ==
    /\ pc = "update"
    /\ known_available' = NextKnown(known_available, current_cycle_ids)
    /\ pc' = "sleep"
    /\ delay' = check_interval
    /\ CycleEnds("updated")
    /\ LocalsGone
    /\ UNCHANGED <<probe, variant, startup_sent, stop>>

\* time.sleep returns and the loop starts over
Wake ==
    /\ pc \in {"sleep", "recover"}
    /\ pc' = "cycle"
    /\ delay' = 0
    /\ LocalsKept
    /\ UNCHANGED <<probe, variant, known_available, startup_sent, last, last2, updated_ids,
                   stop>>

\* the places of run() inside `try:` of the loop
InTry == {"cycle", "fetch", "fetched", "notify", "update", "sleep"}

\* variant of WhereInterruptEnds whose try covers only the sleep
WhereInterruptEnds_SleepOnly(at) == IF at \in {"cycle", "sleep"} THEN "stopped" ELSE "crashed"

\* KeyboardInterrupt is no Exception: no `except Exception` on the way catches
\* it. Inside the loop's try it reaches `except KeyboardInterrupt: break`;
\* in the startup part and in the handler's time.sleep(60) nothing catches it
\* and it leaves run()
WhereInterruptEnds(at) == IF at \in InTry THEN "stopped" ELSE "crashed"

KeyboardInterrupt ==
    /\ pc \notin {"stopped", "crashed"}
    /\ stop' = pc
    /\ pc' = WhereInterruptEnds(pc)
    /\ LocalsKept
    /\ UNCHANGED <<probe, variant, known_available, delay, startup_sent, last, last2, updated_ids>>

Step ==
    \/ Startup
    \/ CycleStart
    \/ Request
    \/ FetchReturn
    \/ NoData
    \/ CycleError
    \/ Diff
    \/ Send
    \/ Update
    \/ Wake

Next == Step \/ KeyboardInterrupt

Spec == Init /\ [][Next]_vars

\* the process keeps running as long as nothing interrupts it
FairSpec == Spec /\ WF_vars(Step)

(* ------------------- one cycle over a long availability ---------------- *)

\* the start hours the club offers, some below min_hour
FirstHour == min_hour - 1

LastHour == 22

\* "HH:00:00"
TimeOf(h) == <<Digits[(h \div 10) + 1], Digits[(h % 10) + 1], ":", "0", "0", ":", "0", "0">>

PriceOf(h) == Str(<<Digits[(h \div 10) + 1], Digits[(h % 10) + 1]>>)

\* the hours a..b as the API lists them, ascending or descending
HourSeq(a, b, desc) ==
    IF a > b THEN <<>>
    ELSE [i \in 1..(b - a + 1) |-> IF desc THEN b - i + 1 ELSE a + i - 1]

\* WA: the resources of one day, each with its slots; R2 offers 18:00 too
WA_Day(hours, extra) ==
    <<Obj(Str(R1), [i \in 1..Len(hours) |-> Slot(Str(TimeOf(hours[i])), PriceOf(hours[i]))],
          FALSE, None, None)>>
    \o (IF extra
        THEN <<Obj(Str(RX), <<Slot(Str(T1900), Str(<<"1", "2">>))>>, FALSE, None, None),
               Obj(Str(<<"R", "2">>), <<Slot(Str(T1800), Str(<<"9">>))>>, FALSE, None, None)>>
        ELSE <<>>)

\* EMAIL: one element per slot of the tenant; the 19:00 one is taken
Email_Day(hours) ==
    [i \in 1..Len(hours) |->
        Obj(Str(R1), <<>>, hours[i] # 19, Str(TimeOf(hours[i])), PriceOf(hours[i]))]

\* what get_available_courts returns when the club has this much on offer;
\* the later date comes first when the earlier pair of the first tenant and
\* the later pair of the second one brought nothing
LongRows(v, h0, h1, swap) ==
    IF v = "WA"
    THEN LET d0 == [date |-> strftime(0), data |-> WA_Day(h0, TRUE)]
             d1 == [date |-> strftime(1), data |-> WA_Day(h1, FALSE)]
         IN  IF swap THEN <<d1, d0>> ELSE <<d0, d1>>
    ELSE LET t1 == [tenant_id |-> tenant_ids[1], data |-> Email_Day(h0)]
             t2 == [tenant_id |-> tenant_ids[2], data |-> Email_Day(h1)]
         IN  (IF h0 = <<>> THEN <<>> ELSE <<t1>>) \o (IF h1 = <<>> THEN <<>> ELSE <<t2>>)

\* what an earlier cycle may have left in known_available
LongKnown(v) ==
    LET some == LongRows(v, <<18, 19>>, <<17>>, FALSE)
        all == LongRows(v, HourSeq(FirstHour, LastHour, FALSE),
                        HourSeq(FirstHour, LastHour, FALSE), FALSE)
    IN  {{}, Computed(v, some).ids, Computed(v, all).ids}

\* get_available_courts has just returned a long availability
CycleInit ==
    /\ variant \in {"WA", "EMAIL"}
    /\ pc = "fetched"
    /\ \E a \in FirstHour..(LastHour + 1), b \in (FirstHour - 1)..LastHour,
          c \in (FirstHour - 1)..LastHour, desc \in BOOLEAN, swap \in BOOLEAN :
         /\ a <= b + 1
         /\ availability_data = [is_none |-> FALSE,
                                 rows |-> LongRows(variant, HourSeq(a, b, desc),
                                                   HourSeq(FirstHour + 1, c, FALSE), swap)]
    /\ known_available \in LongKnown(variant)
    /\ updated_ids = known_available
    /\ probe = NoProbe
    /\ idx = NumPairs + 1
    /\ all_results = availability_data.rows
    /\ response = NoResponse
    /\ requests = <<>>
    /\ non200_only = FALSE
    /\ current_cycle_ids = {}
    /\ found_slots = <<>>
    /\ new_openings = {}
    /\ message = NoMessage
    /\ sent = 0
    /\ delivered = FALSE
    /\ delay = 0
    /\ startup_sent = IF variant = "WA" THEN 1 ELSE 0
    /\ last = NoCycle
    /\ last2 = {}
    /\ stop = "none"

\* check_and_notify from the return of the fetcher to its last statement
CycleNext == Diff \/ Send \/ Update

CycleSpec == CycleInit /\ [][CycleNext]_vars

(* ---------------------- the identity key by itself --------------------- *)

\* one slot as the API returns it, with the tenant and the date of the request
Observation(t, d, rid, st, price) ==
    [tenant_id |-> t, date |-> d, resource_id |-> rid, start_time |-> st, price |-> price]

Observations ==
    {Observation(t, d, Str(rid), Str(st), Str(price)) :
        t \in {tenant_ids[1], tenant_ids[2]},
        d \in {strftime(0), strftime(1)},
        rid \in {R1, R1 \o <<"_">> \o T1800},
        st \in {T1800, T1900, T1800 \o <<"_">> \o T1900},
        price \in {<<"1", "0">>, <<"1", "2">>}}

\* the key check_and_notify gives an observation
KeyOf(v, o) ==
    IF v = "WA"
    THEN WA_slot_id(o.date, WA_court_id(Obj(o.resource_id, <<>>, FALSE, None, None)),
                    o.start_time.v)
    ELSE Email_court_id(Email_Court(o.tenant_id,
                                    Obj(o.resource_id, <<>>, TRUE, o.start_time, o.price)))

KeyInit ==
    /\ variant \in {"WA", "EMAIL"}
    /\ pc = "startup"
    /\ known_available = {}
    /\ updated_ids = {}
    /\ \E a \in Observations, b \in Observations :
         probe = [phase |-> "seen", a |-> a, b |-> b, key_a |-> <<>>, key_b |-> <<>>]
    /\ Fresh

MakeKeys ==
    /\ probe.phase = "seen"
    /\ probe' = [probe EXCEPT !.phase = "keyed",
                              !.key_a = KeyOf(variant, probe.a),
                              !.key_b = KeyOf(variant, probe.b)]
    /\ UNCHANGED <<variant, pc, known_available, idx, all_results, response, requests,
                   non200_only, availability_data, current_cycle_ids, found_slots,
                   new_openings, message, sent, delivered, delay, startup_sent, last,
                   last2, updated_ids, stop>>

KeyNext == MakeKeys

KeySpec == KeyInit /\ [][KeyNext]_vars

(* ------------------------------- claims -------------------------------- *)

\* a cycle is in flight from the call of check_and_notify to its return
InFlight == {"fetch", "fetched", "notify", "update"}

\* C1: in a cycle that reaches the difference, with Known-Set K and identity
\* set C, the set reported as new is C \ K exactly, and the last statement of
\* the cycle makes Known-Set equal to C, so nothing of K \ C stays.
C1_DiffExactAndReplaced ==
    [][(pc = "update" /\ pc' = "sleep") =>
          /\ new_openings = current_cycle_ids \ known_available
          /\ known_available' = current_cycle_ids
          /\ known_available' \cap (known_available \ current_cycle_ids) = {}]_vars

\* a cycle has ended that reported something new and dropped an identity
\* the cycle before it had observed
C1_Witness ==
    /\ pc = "sleep"
    /\ last.outcome = "updated"
    /\ last.sent = 1
    /\ last2 \ last.ids # {}
    /\ known_available = last.ids

\* C2 as stated: between cycles Known-Set is exactly the identity set the
\* most recently completed cycle observed.
C2_Original == pc = "sleep" => known_available = last.ids

\* C2 amended: between cycles Known-Set is exactly the identity set of the
\* most recent cycle that reached the Known-Set update (empty before the first
\* one); a cycle that returned early or raised left it as it was.
C2_KnownIsLastUpdate ==
    pc \in {"cycle", "sleep", "recover"} => known_available = updated_ids

\* a cycle without data has ended and Known-Set still holds identities that
\* this cycle did not observe
C2_Witness ==
    /\ pc = "sleep"
    /\ last.outcome = "nodata"
    /\ known_available # {}
    /\ known_available = updated_ids

\* C3 as stated: an identity observed two cycles ago, not observed in the
\* previous cycle (however that came about) and observed again now is
\* reported as new and a notification is sent.
C3_Original ==
    pc = "update" =>
        \A x \in current_cycle_ids :
            (x \in last2 /\ x \notin last.ids) => (x \in new_openings /\ sent = 1)

\* C3 amended: the same, provided the previous cycle reached the Known-Set
\* update.
C3_ReturnRenotifies ==
    pc = "update" =>
        \A x \in current_cycle_ids :
            (x \in last2 /\ x \notin last.ids /\ last.outcome = "updated")
                => (x \in new_openings /\ sent = 1)

C3_Witness ==
    /\ pc = "update"
    /\ last.outcome = "updated"
    /\ \E x \in current_cycle_ids : x \in last2 /\ x \notin last.ids /\ x \in new_openings
    /\ sent = 1

\* C4: when every request of the cycle got a non-200 status, the fetch
\* returns an empty list, no notification is sent and the cycle leaves
\* Known-Set as it was.
C4_AllNon200KeepsKnown ==
    [][(non200_only /\ Len(requests) = NumPairs /\ pc \in {"fetched", "notify", "update"}) =>
          /\ pc = "fetched" => (~availability_data.is_none /\ availability_data.rows = <<>>)
          /\ pc' # "notify"
          /\ sent = 0
          /\ known_available' = known_available]_vars

\* C5: when the previous cycle produced the identity set this cycle produces,
\* this cycle reports nothing new, sends nothing, and its update leaves the
\* content of Known-Set as it is, whatever the prices.
C5_SameIdentitiesQuiet ==
    (pc = "update" /\ last.outcome = "updated" /\ last.ids = current_cycle_ids) =>
        /\ new_openings = {}
        /\ sent = 0
        /\ message = NoMessage
        /\ known_available = current_cycle_ids

\* the same identities again, every price different from the cycle before
C5_Witness ==
    /\ pc = "update"
    /\ last.outcome = "updated"
    /\ last.ids = current_cycle_ids
    /\ current_cycle_ids # {}
    /\ PricesOf(found_slots) \cap last.prices = {}
    /\ sent = 0

\* C6: a failed delivery is neither retried nor propagated: the cycle it
\* happened in ended with the Known-Set update, one send was made, and a
\* following cycle with the same identities sends nothing.
C6_FailedDeliverySwallowed ==
    /\ (sent > 0 /\ ~delivered) => (sent = 1 /\ pc \in {"update", "stopped"})
    /\ (last.sent > 0 /\ ~last.delivered) =>
          /\ last.outcome = "updated"
          /\ last.sent = 1
          /\ known_available = last.ids
          /\ (pc \in {"notify", "update"} /\ current_cycle_ids = last.ids) =>
                (pc = "update" /\ sent = 0)

C6_Witness ==
    /\ pc = "update"
    /\ last.sent = 1
    /\ ~last.delivered
    /\ current_cycle_ids = last.ids
    /\ last.ids # {}
    /\ sent = 0

\* C7: when check_and_notify raises, the runner catches it: Known-Set keeps
\* its pre-cycle value, nothing was sent in that cycle, the runner sleeps the
\* recovery delay and not the check interval, and then starts the next cycle.
C7_ErrorRecovery ==
    [][/\ (pc = "fetched" /\ ~ReturnsEarly /\ Raises /\ stop' = "none") =>
             /\ pc' = "recover"
             /\ delay' = recovery_delay
             /\ delay' # check_interval
             /\ known_available' = known_available
             /\ known_available' = updated_ids
             /\ last'.outcome = "error"
             /\ last'.sent = 0
       /\ (pc = "recover" /\ stop' = "none") =>
             (pc' = "cycle" /\ known_available' = known_available)]_vars

C7_Witness ==
    /\ pc = "recover"
    /\ last.outcome = "error"
    /\ delay = recovery_delay
    /\ known_available # {}

\* C8: when the fetch has returned, every pair was requested and every pair
\* that answered 200 with a non-empty body has its entry in the result,
\* whatever happened to the other pairs.
C8_FailureIsPerPair ==
    pc = "fetched" =>
        /\ Len(requests) = NumPairs
        /\ ~availability_data.is_none
        /\ Len(availability_data.rows)
             = Cardinality({k \in 1..Len(requests) : requests[k].answered})

\* C9 as stated: the stop signal never ends the run with a cycle part-way.
C9_Original == pc \in {"stopped", "crashed"} => idx = 0

\* C9 amended: the stop signal is acted on where it arrives: when a cycle is
\* in flight the cycle is abandoned at that point, the steps it has not done
\* yet (the Known-Set update among them) are skipped, and the loop ends.
C9_InterruptAbortsCycle ==
    [][(stop = "none" /\ stop' \in InFlight) =>
          /\ pc' = "stopped"
          /\ known_available' = known_available
          /\ known_available' = updated_ids
          /\ sent' = sent
          /\ last' = last]_vars

\* the signal arrived before the Known-Set update of a cycle that had
\* something to store
C9_Witness ==
    /\ pc = "stopped"
    /\ stop = "update"
    /\ current_cycle_ids # known_available

\* C10: wherever the stop signal is received, the loop is left normally.
C10_StopIsGraceful == stop # "none" => pc = "stopped"

\* the raw slots of a WA cycle: row, resource and slot position
RawSlots ==
    {p \in (1..Len(availability_data.rows)) \X (1..3) \X (1..(LastHour - FirstHour + 1)) :
        /\ p[2] <= Len(availability_data.rows[p[1]].data)
        /\ p[3] <= Len(availability_data.rows[p[1]].data[p[2]].slots)}

RawDate(p) == availability_data.rows[p[1]].date

RawCourt(p) == availability_data.rows[p[1]].data[p[2]].resource_id.v

RawSlot(p) == availability_data.rows[p[1]].data[p[2]].slots[p[3]]

\* the hour of "HH:00:00", read off its two digits
RawHour(p) == DigitValue(RawSlot(p).start_time.v[1]) * 10 + DigitValue(RawSlot(p).start_time.v[2])

RawValid(p) == RawCourt(p) \notin ignored_courts /\ RawHour(p) >= min_hour

RawFound(p) ==
    [date |-> RawDate(p), time |-> SubSeq(RawSlot(p).start_time.v, 1, 5),
     price |-> RawSlot(p).price]

RawKey(p) == RawDate(p) \o <<"_">> \o RawCourt(p) \o <<"_">> \o RawSlot(p).start_time.v

\* C11: once the filter loop of a WA cycle has run, a raw slot has its entry
\* in found_slots and its identity in current_cycle_ids exactly when its
\* court is not ignored and its hour is not below min_hour, and the loop
\* puts nothing there that no raw slot accounts for
C11_FiltersExact ==
    (variant = "WA" /\ pc \in {"notify", "update"}) =>
        /\ \A p \in RawSlots :
              /\ RawKey(p) \in current_cycle_ids <=> RawValid(p)
              /\ (\E i \in 1..Len(found_slots) : found_slots[i] = RawFound(p)) <=> RawValid(p)
        /\ \A id \in current_cycle_ids : \E p \in RawSlots : RawValid(p) /\ RawKey(p) = id
        /\ Len(found_slots) = Cardinality({p \in RawSlots : RawValid(p)})

\* a cycle with a slot on an ignored court, one before min_hour, one at
\* min_hour and one after it
C11_Witness ==
    /\ variant = "WA"
    /\ pc \in {"notify", "update"}
    /\ \E p \in RawSlots : RawCourt(p) \in ignored_courts /\ RawHour(p) >= min_hour
    /\ \E p \in RawSlots : RawCourt(p) \notin ignored_courts /\ RawHour(p) < min_hour
    /\ \E p \in RawSlots : RawValid(p) /\ RawHour(p) = min_hour
    /\ \E p \in RawSlots : RawValid(p) /\ RawHour(p) > min_hour

\* a notification message has been rendered in the cycle in flight
Rendered == pc = "notify" \/ (pc = "update" /\ sent = 1)

\* C12: a rendered notification lists at most MaxListed slots, and its
\* header states the number of all slots found in the cycle, the ones left
\* out of the list included
C12_CappedWithFullTotal ==
    Rendered =>
        /\ Len(message.lines) <= MaxListed
        /\ message.total = Len(found_slots)
        /\ Len(message.lines) <= message.total

\* what the claim takes an identity to depend on
Triple(o) == <<o.date, o.resource_id, o.start_time>>

\* C13: the keys of two slot observations are equal exactly when the
\* observations agree in date, resource identifier and raw start-time
\* string, whatever their prices
C13_KeyIsInjectiveOnTriple ==
    probe.phase = "keyed" =>
        (probe.key_a = probe.key_b <=> Triple(probe.a) = Triple(probe.b))

\* the (date, time) a rendered line shows: WA "date @ HH:MM (price)", EMAIL
\* "Unknown Club - HH:MM:SS - price" of today
LineKey(l) ==
    IF variant = "WA" THEN SubSeq(l, 1, 10) \o SubSeq(l, 14, 18) ELSE SubSeq(l, 16, 20)

FoundKey(s) == IF variant = "WA" THEN s.date \o s.time ELSE SubSeq(Text(s.time), 1, 5)

FoundLine(s) == IF variant = "WA" THEN WA_Line(s) ELSE Email_Line(s)

Smaller(m, n) == IF m < n THEN m ELSE n

\* the lines are those of the earliest of all found slots, in
\* non-decreasing (date, time) order, cut at MaxListed
ListsEarliestOfAllFound ==
    /\ Len(message.lines) = Smaller(MaxListed, Len(found_slots))
    /\ \A i \in 1..(Len(message.lines) - 1) :
          ~StrLess(LineKey(message.lines[i + 1]), LineKey(message.lines[i]))
    /\ \A i \in 1..Len(message.lines) :
          \E j \in 1..Len(found_slots) : message.lines[i] = FoundLine(found_slots[j])
    /\ \A j \in 1..Len(found_slots) :
          (message.lines # <<>>
           /\ StrLess(FoundKey(found_slots[j]), LineKey(message.lines[Len(message.lines)])))
          => \E i \in 1..Len(message.lines) : message.lines[i] = FoundLine(found_slots[j])

LoopStarted == pc # "startup" /\ stop # "startup"

\* C15: one startup notification is sent when the process begins: none is
\* out before the startup step, exactly one once the polling loop has
\* started, and never a second one
C15_OneStartupNotification ==
    /\ startup_sent <= 1
    /\ pc = "startup" => startup_sent = 0
    /\ LoopStarted => startup_sent = 1

\* the (tenant, date) pairs of the query window, tenant-major and
\* date-ascending; the EMAIL window is today alone
WindowDates == IF variant = "WA" THEN NumDates ELSE 1

Window ==
    [k \in 1..(NumTenants * WindowDates) |->
        [tenant_id |-> <<"T", Digits[((k - 1) \div WindowDates) + 2]>>,
         date |-> strftime((k - 1) % WindowDates)]]

\* C16: when the fetcher returns, it has issued one request per pair of the
\* query window, in tenant-major, date-ascending order, none twice, and its
\* result has one entry per pair that answered 200 with a non-empty body,
\* in request order, and no other entry
C16_OneRequestPerPair ==
    pc = "fetched" =>
        LET answered == SelectSeq(requests, LAMBDA q : q.answered)
        IN  /\ Len(requests) = Len(Window)
            /\ \A k \in 1..Len(requests) :
                  /\ requests[k].tenant_id = Window[k].tenant_id
                  /\ requests[k].date = Window[k].date
            /\ ~availability_data.is_none
            /\ Len(availability_data.rows) = Len(answered)
            /\ \A i \in 1..Len(availability_data.rows) :
                  IF variant = "WA"
                  THEN availability_data.rows[i].date = answered[i].date
                  ELSE availability_data.rows[i].tenant_id = answered[i].tenant_id

\* C17: a cycle sends at most one notification, and the cycle that runs to
\* its end has sent one exactly when its identity set holds an identity
\* that was not in known_available when it started; the first cycle that
\* finds a valid slot sends one
C17_OneMessageIffNew ==
    [][/\ sent' <= 1
       /\ (pc \in InFlight /\ pc' \in {"sleep", "recover"}) =>
             /\ sent = 1 <=> (current_cycle_ids \ known_available) # {}
             /\ (last.outcome = "none" /\ current_cycle_ids # {}) => sent = 1]_vars

\* a later cycle that found an identity known before and a new one, and has
\* sent its notification
C17_Witness ==
    /\ pc = "update"
    /\ sent = 1
    /\ known_available # {}
    /\ (current_cycle_ids \cap known_available) # {}
    /\ (current_cycle_ids \ known_available) # {}

====
